---- MODULE Spec2Model ----
(***************************************************************************)
(* music-discord-rpc, src/main.rs (Linux build unless stated otherwise):   *)
(* player selection, the change check, the Discord connection life cycle   *)
(* and the two nested polling loops of main().                             *)
(*                                                                         *)
(* Player names, bus names and allowlist patterns are sequences of small   *)
(* naturals (one natural per character); metadata strings are strings.     *)
(***************************************************************************)
EXTENDS Integers, Sequences, FiniteSets, TLC

VARIABLES
    \* ---- inputs and result of one selection (specification SpecSel) ----
    sel_cands,      \* the players as find_all() enumerates them
    sel_allow,      \* settings.allowlist
    sel_out,        \* what the operation applied to them returned
    \* ---- main(): settings and loop position ----
    settings,       \* allowlist, only_when_playing, list_players, get_player_id
    pc,             \* "outer", "inner", or how the process ended
    current_player_bus_name,
    client,         \* "audio" for client_audio, "video" for client_video
    media_info,     \* the snapshot read in the last inner iteration
    \* ---- main(): vars for activity update detection ----
    last_title,
    last_album,
    last_artist,
    last_album_artist,
    last_album_id,
    last_track_position,
    last_is_playing,
    is_first_time_audio,
    is_first_time_video,
    is_interrupted,
    is_activity_set,
    dbus_notif,
    player_notif,
    discord_notif,
    \* ---- the two Discord application ids as Discord sees them ----
    conn,           \* conn[c]: the IPC handle of client c is open
    shown,          \* shown[c]: Discord shows a presence under client c
    \* ---- observation of the last step ----
    trace,          \* the external calls and printed lines of the last step
    connected_once, \* connected_once[c]: a connect or reconnect of c succeeded
    fail_pending,   \* "Could not (re)connect" printed since the last success
    last_notice,    \* the last player notice printed: "found", "lost" or "none"
    refresh_due,    \* "due": the presence was cleared, or a publish skipped
                    \* or failed for an outside reason, since the last
                    \* successful publish; "no": not so; "off": not recorded
    iteration,      \* "even" or "odd": the parity of the iterations of the
                    \* loops run so far; "off": not recorded
    \* ---- main(): album cover ----
    art_cfg,        \* lastfm_api_key, cache_enabled, the cover settings, and
                    \* what the two lookup services know
    _cover_url,
    album_cache,    \* the PickleDb: album_id -> cover url
    image,          \* the large image of the last payload built
    lookups,        \* lookups[<<service, album_id>>]: requests sent so far
    \* ---- inputs and result of building one part of a payload (SpecPay) ----
    pay_in,         \* what the part is built from
    pay_out         \* the part as built

sel_vars == <<sel_cands, sel_allow, sel_out>>

tracked_vars == <<last_title, last_album, last_artist, last_album_artist,
                  last_album_id, last_track_position, last_is_playing>>

flag_vars == <<is_first_time_audio, is_first_time_video, is_interrupted,
               is_activity_set, dbus_notif, player_notif, discord_notif>>

loop_vars == <<settings, pc, current_player_bus_name, client, media_info>>

sink_vars == <<conn, shown, trace, connected_once, fail_pending, last_notice,
               refresh_due, iteration>>

art_vars == <<art_cfg, _cover_url, album_cache, image, lookups>>

main_vars == <<loop_vars, tracked_vars, flag_vars, sink_vars, art_vars>>

pay_vars == <<pay_in, pay_out>>

vars == <<sel_vars, main_vars, pay_vars>>

----------------------------------------------------------------------------
(* Bounds *)

\* longest player enumeration drawn for a selection
MaxCands == 2
\* longest allowlist drawn for a selection
MaxPatterns == 2
\* largest track position (seconds) a snapshot reports
MaxPos == 2
\* largest track length (seconds) a snapshot reports
MaxDuration == 2
\* longest settings.button drawn
MaxButtons == 3
\* requests to one lookup service for one album after which no cycle is started
MaxLookups == 2

----------------------------------------------------------------------------
(* Characters and names *)

\* '*' (0x2A) sorts below every letter
Star == 0

\* "org.mpris.MediaPlayer2.playerctld"
Playerctld == <<3>>

BusNames == {<<1, 1>>, <<1, 2>>, Playerctld}
Identities == {<<1>>, <<2, 1>>}
Patterns == {<<1>>, <<1, Star>>, <<2, 1>>, <<Star>>}

Statuses == {"Playing", "Paused", "Stopped"}

NoPlayer == <<>>

Min(a, b) == IF a < b THEN a ELSE b

\* str::starts_with
starts_with(name, prefix) ==
    /\ Len(prefix) <= Len(name)
    /\ SubSeq(name, 1, Len(prefix)) = prefix

\* Ord for String: byte-wise lexicographic
StrLess(a, b) ==
    \E k \in 1..(Min(Len(a), Len(b)) + 1) :
        /\ \A j \in 1..(k - 1) : a[j] = b[j]
        /\ \/ k > Len(a) /\ k <= Len(b)
           \/ k <= Len(a) /\ k <= Len(b) /\ a[k] < b[k]

----------------------------------------------------------------------------
(* matches_allowlist, is_player_allowlisted *)

matches_allowlist(player_name, pattern) ==
    IF Len(pattern) > 0 /\ pattern[Len(pattern)] = Star
    THEN starts_with(player_name, SubSeq(pattern, 1, Len(pattern) - 1))
    ELSE player_name = pattern

is_player_allowlisted(p, allowlist) ==
    \E i \in 1..Len(allowlist) :
        \/ matches_allowlist(p.identity, allowlist[i])
        \/ matches_allowlist(p.bus, allowlist[i])

\* the macOS build compares the player id with every allowlist entry whole
mac_is_player_on_allowlist(player_id, allowlist) ==
    \E i \in 1..Len(allowlist) : allowlist[i] = player_id

----------------------------------------------------------------------------
(* Selection with an allowlist: filter_map, then min_by_key *)

get_playback_priority(p) ==
    CASE p.status = "Playing" -> 0
      [] p.status = "Paused" -> 1
      [] OTHER -> 2

\* Iterator::position: index (from 0) of the first matching pattern, -1 for None
RECURSIVE position_from(_, _, _)
position_from(p, allowlist, i) ==
    IF i > Len(allowlist) THEN -1
    ELSE IF \/ matches_allowlist(p.identity, allowlist[i])
            \/ matches_allowlist(p.bus, allowlist[i])
         THEN i - 1
         ELSE position_from(p, allowlist, i + 1)

allowlist_pos(p, allowlist) == position_from(p, allowlist, 1)

metadata_quality(p) == IF p.valid THEN 0 ELSE 1

\* a deliberately wrong variant: the allowlist position is compared before the playback status
priority_tuple_rank_first(p, allowlist) ==
    <<allowlist_pos(p, allowlist), get_playback_priority(p),
      metadata_quality(p), p.bus>>

priority_tuple(p, allowlist) ==
    <<get_playback_priority(p), allowlist_pos(p, allowlist),
      metadata_quality(p), p.bus>>

\* Ord for (u8, usize, i32, String)
TupleLess(s, t) ==
    \/ s[1] < t[1]
    \/ s[1] = t[1] /\ s[2] < t[2]
    \/ s[1] = t[1] /\ s[2] = t[2] /\ s[3] < t[3]
    \/ s[1] = t[1] /\ s[2] = t[2] /\ s[3] = t[3] /\ StrLess(s[4], t[4])

\* the closure of filter_map: TRUE when the player is kept
is_candidate(p, allowlist) ==
    /\ p.bus # Playerctld
    /\ allowlist_pos(p, allowlist) >= 0

RECURSIVE candidates_with_priority(_, _)
candidates_with_priority(all_players, allowlist) ==
    IF all_players = <<>> THEN <<>>
    ELSE LET p == Head(all_players)
             rest == candidates_with_priority(Tail(all_players), allowlist)
         IN IF is_candidate(p, allowlist) THEN <<p>> \o rest ELSE rest

\* Iterator::min_by_key: the first of the least elements
RECURSIVE min_by_key(_, _, _, _)
min_by_key(cands, allowlist, i, best) ==
    IF i > Len(cands) THEN best
    ELSE IF TupleLess(priority_tuple(cands[i], allowlist),
                      priority_tuple(cands[best], allowlist))
         THEN min_by_key(cands, allowlist, i + 1, i)
         ELSE min_by_key(cands, allowlist, i + 1, best)

\* the player chosen with an allowlist, NoPlayer for Err(NoPlayerFound)
allowlist_finder(all_players, allowlist) ==
    LET cands == candidates_with_priority(all_players, allowlist)
    IN IF cands = <<>> THEN NoPlayer
       ELSE cands[min_by_key(cands, allowlist, 2, 1)]

\* the reselection probe of the inner loop
should_reselect(all_players, current_bus, allowlist_enabled, allowlist) ==
    \E i \in 1..Len(all_players) :
        LET p == all_players[i]
        IN /\ p.bus # Playerctld
           /\ p.bus # current_bus
           /\ allowlist_enabled => is_player_allowlisted(p, allowlist)
           /\ get_playback_priority(p) = 0
           /\ p.valid

----------------------------------------------------------------------------
(* The players, snapshots and settings the loops of main() are run against *)

PlayerA == [bus |-> <<1, 1>>, identity |-> <<1>>]
PlayerV == [bus |-> <<1, 2>>, identity |-> <<2, 1>>]
PlayerC == [bus |-> Playerctld, identity |-> <<3>>]
MainPlayers == {PlayerA, PlayerV, PlayerC}

\* settings.video_players
video_players == {<<2, 1>>}

Absent == [status |-> "Absent", valid |-> FALSE]

PlayerStates ==
    {Absent,
     [status |-> "Playing", valid |-> TRUE],
     [status |-> "Playing", valid |-> FALSE],
     [status |-> "Paused", valid |-> TRUE],
     [status |-> "Stopped", valid |-> FALSE]}

Present(p, st) ==
    IF st = Absent THEN <<>>
    ELSE <<[bus |-> p.bus, identity |-> p.identity,
            status |-> st.status, valid |-> st.valid]>>

\* what find_all() can return: any of the players, each in any state
Worlds ==
    {Present(PlayerA, a) \o Present(PlayerV, v) \o Present(PlayerC, c) :
        a \in PlayerStates, v \in PlayerStates,
        c \in {Absent, [status |-> "Playing", valid |-> TRUE]}}

Range(seq) == {seq[i] : i \in 1..Len(seq)}

\* PlayerFinder::find_active of the mpris crate: the first playing player,
\* else the first paused one, else the first found; the enumeration order is
\* D-Bus's, so any player of the best class may be the first
find_active(all_players) ==
    LET playing == {p \in Range(all_players) : p.status = "Playing"}
        paused == {p \in Range(all_players) : p.status = "Paused"}
    IN IF playing # {} THEN playing
       ELSE IF paused # {} THEN paused
       ELSE Range(all_players)

allowlist_enabled == Len(settings.allowlist) > 0

\* the outcomes of "Find active player": the players selected_player can be
selected_player(all_players, allowlist) ==
    IF Len(allowlist) > 0
    THEN LET best == allowlist_finder(all_players, allowlist)
         IN IF best = NoPlayer THEN {} ELSE {best}
    ELSE find_active(all_players)

\* settings.allowlist in the runs of main()
MainAllowlists == {<<>>, <<(<<Star>>)>>}

\* <<allowlist, player>>: some enumeration makes selected_player that player
SelectedPairs ==
    UNION {{<<al, [bus |-> p.bus, identity |-> p.identity]>> :
                p \in selected_player(w, al)} :
           al \in MainAllowlists, w \in Worlds}

\* the allowlists under which some enumeration makes selected_player Err
NoneSelected ==
    {al \in MainAllowlists : \E w \in Worlds : selected_player(w, al) = {}}

\* <<allowlist, tracked bus name, b>>: some enumeration makes should_reselect b
ProbeOutcomes ==
    {<<al, p.bus, should_reselect(w, p.bus, Len(al) > 0, al)>> :
        al \in MainAllowlists, p \in MainPlayers, w \in Worlds}

Clients == {"audio", "video"}

Metas ==
    {[title |-> "Song", artist |-> "Band", album |-> "LP", album_artist |-> "Band"],
     [title |-> "Tune", artist |-> "Band", album |-> "LP", album_artist |-> "Band"],
     [title |-> "Unknown Title", artist |-> "UNKNOWN ARTIST",
      album |-> "unknown album", album_artist |-> ""],
     [title |-> "Unknown Title", artist |-> "unknown artist",
      album |-> "LP", album_artist |-> ""],
     [title |-> "", artist |-> "Band", album |-> "LP", album_artist |-> "Band"],
     [title |-> "Song", artist |-> "", album |-> "LP", album_artist |-> "Band"]}

\* what utils::get_currently_playing can return in Ok
Snapshots ==
    {[title |-> m.title, artist |-> m.artist, album |-> m.album,
      album_artist |-> m.album_artist, position |-> pos, is_playing |-> playing] :
        m \in Metas, pos \in 0..MaxPos, playing \in BOOLEAN}

NoInfo == [title |-> "", artist |-> "", album |-> "", album_artist |-> "",
           position |-> 0, is_playing |-> FALSE]

\* str::to_lowercase on the strings of Metas
to_lowercase(s) ==
    CASE s = "Unknown Title" -> "unknown title"
      [] s = "UNKNOWN ARTIST" -> "unknown artist"
      [] s = "Song" -> "song"
      [] s = "Tune" -> "tune"
      [] s = "Band" -> "band"
      [] s = "LP" -> "lp"
      [] s = "Unknown Artist" -> "unknown artist"
      [] s = "by: Unknown Artist" -> "by: unknown artist"
      [] s = "by: Band" -> "by: band"
      [] s = "B " -> "b "
      [] s = "by: B" -> "by: b"
      [] OTHER -> s

----------------------------------------------------------------------------
(* The checks of the inner loop *)

album_id_of(s) == s.album_artist \o " - " \o s.album

\* "If all metadata values are unknown then break"
is_unknown_metadata(s) ==
    /\ to_lowercase(s.artist) = "unknown artist"
    /\ to_lowercase(s.album) = "unknown album"
    /\ to_lowercase(s.title) = "unknown title"

\* a deliberately wrong variant: only the artist is tested
is_empty_metadata_artist_only(s) == s.artist = ""

\* "If artist or track is empty then break"
is_empty_metadata(s) == s.artist = "" \/ s.title = ""

\* the comparison that first sets metadata_changed
fields_differ(s) ==
    \/ s.title # last_title
    \/ s.album # last_album
    \/ s.artist # last_artist
    \/ s.album_artist # last_album_artist
    \/ s.is_playing # last_is_playing

\* "Check if song repeated"
song_repeated(s) == s.position < last_track_position /\ ~fields_differ(s)

\* metadata_changed when "metadata_changed: {}" is logged
metadata_changed(s) == fields_differ(s) \/ song_repeated(s)

\* is_interrupted when the skip test is made: a snapshot that is not playing
\* has set it at the top of the iteration
interrupted_now(s) == is_interrupted \/ ~s.is_playing

\* a deliberately wrong variant: the skip test looks at metadata_changed alone
skips_publish_ignoring_interrupt(s) == ~metadata_changed(s)

\* "if !metadata_changed && !is_interrupted": skip, sleep, continue
skips_publish(s) == ~metadata_changed(s) /\ ~interrupted_now(s)

\* a deliberately wrong variant: only_when_playing is not looked at
reaches_checks_whatever_the_setting(s) ==
    \/ s.is_playing
    \/ <<settings.allowlist, current_player_bus_name, FALSE>> \in ProbeOutcomes

\* the snapshot gets past the playing/paused policy to the metadata checks
reaches_checks(s) ==
    \/ s.is_playing
    \/ /\ ~settings.only_when_playing
       /\ <<settings.allowlist, current_player_bus_name, FALSE>> \in ProbeOutcomes

----------------------------------------------------------------------------
(* Time stamps: u64 seconds, scaled down to WordBits bits *)

WordBits == 4
Wrap == 2 ^ WordBits
I64Max == 2 ^ (WordBits - 1) - 1

\* SystemTime::now() in seconds since the epoch, drawn next to the largest
\* position so that positions up to the clock and beyond it both occur
Clock == {MaxPos - 1, MaxPos}

\* n.as_secs().sub(media_info.position), wrapping as a release build does
time_start(now, position) == (now - position) % Wrap

\* the subtraction overflows (debug build) or try_into().unwrap() sees a
\* value above i64::MAX (release build): either way main() panics
timestamps_panic(now, s) ==
    \/ s.position > now
    \/ time_start(now, s.position) > I64Max

----------------------------------------------------------------------------
(* Discord clients and what the step printed *)

\* the process ends: both pipes are closed and Discord shows nothing of it
Gone == [c \in Clients |-> FALSE]

Ev(kind, arg, res) == <<kind, arg, res>>
Say(msg) == <<"print", msg, "">>

Has(tr, kind) == \E i \in 1..Len(tr) : tr[i][1] = kind
Said(tr, msg) == \E i \in 1..Len(tr) : tr[i] = Say(msg)

\* a deliberately wrong variant: the sink is cleared whatever the flag says
clear_activity_always(flag, c) ==
    [is_activity_set |-> FALSE,
     calls |-> <<Ev("clear_activity", c, "ok")>>,
     shown |-> [shown EXCEPT ![c] = FALSE]]

\* utils::clear_activity(&mut is_activity_set, client)
clear_activity(flag, c) ==
    [is_activity_set |-> FALSE,
     calls |-> IF flag THEN <<Ev("clear_activity", c, "ok")>> ELSE <<>>,
     shown |-> IF flag THEN [shown EXCEPT ![c] = FALSE] ELSE shown]

\* a deliberately wrong variant: one flag serves both clients
use_connect_audio_flag(is_video_player) == is_first_time_audio

\* the condition of "Connect with Discord"
use_connect(is_video_player) ==
    \/ is_first_time_audio /\ ~is_video_player
    \/ is_first_time_video /\ is_video_player

\* the two texts printed when selected_player is Err
NoPlayerTexts == {"Could not find any active player from your allowlist",
                  "Could not find any player"}

\* the step cleared the presence, or did not publish or failed to, for a
\* reason outside the snapshot: not playing under only_when_playing, the
\* player unreadable, no player, Discord not reachable, set_activity failed
Disturbed(tr) ==
    \/ Has(tr, "clear_activity")
    \/ pc = "inner" /\ pc' = "inner" /\ media_info' # NoInfo
          /\ ~media_info'.is_playing /\ settings.only_when_playing
    \/ Said(tr, "Could not get metadata from player")
    \/ pc = "outer" /\ pc' = "outer" /\ ~dbus_notif' /\ player_notif' = 2
          /\ ~Has(tr, "connect") /\ ~Has(tr, "reconnect")
    \/ \E c \in Clients : \/ Ev("connect", c, "err") \in Range(tr)
                           \/ Ev("reconnect", c, "err") \in Range(tr)
                           \/ Ev("set_activity", c, "err") \in Range(tr)

\* what the step's trace does to the history variables
Observe(tr) ==
    LET okc(c) == \/ Ev("connect", c, "ok") \in Range(tr)
                  \/ Ev("reconnect", c, "ok") \in Range(tr)
        failed == \/ Said(tr, "Could not connect to Discord")
                  \/ Said(tr, "Could not reconnect to Discord")
    IN /\ connected_once' = [c \in Clients |-> connected_once[c] \/ okc(c)]
       /\ fail_pending' = IF \E c \in Clients : okc(c) THEN FALSE
                          ELSE IF failed THEN TRUE
                          ELSE fail_pending
       /\ last_notice' = IF Said(tr, "Found active player") THEN "found"
                         ELSE IF \E msg \in NoPlayerTexts : Said(tr, msg)
                              THEN "lost"
                              ELSE last_notice
       /\ refresh_due' =
             IF refresh_due = "off" THEN "off"
             ELSE IF \E c \in Clients : Ev("set_activity", c, "ok") \in Range(tr)
                  THEN "no"
                  ELSE IF refresh_due = "due" \/ Disturbed(tr) THEN "due" ELSE "no"
       /\ iteration' = CASE iteration = "off" -> "off"
                         [] iteration = "even" -> "odd"
                         [] iteration = "odd" -> "even"

----------------------------------------------------------------------------
(* "Fetch album cover" *)

MissingCover == "missing-cover"

is_missing(url) == url = "" \/ url = MissingCover

\* media_info.album and media_info.art_url in the cover cycles
ArtAlbums == {"LP", "Mix - EP"}
ArtUrls == {"", "http://art", "file:///art"}

\* album.trim() without a trailing " - EP" or " - Single", "" when it has none
album_name_without_suffix(album) ==
    CASE album = "Mix - EP" -> "Mix"
      [] OTHER -> ""

\* art_url.starts_with("http")
starts_with_http(url) == url = "http://art"

Services == {"lastfm", "musicbrainz"}

ArtAlbumIds == {"Band - " \o a : a \in ArtAlbums}

NoCache == [id \in {} |-> ""]

cache_set(cache, album_id, url) ==
    [id \in DOMAIN cache \cup {album_id} |->
        IF id = album_id THEN url ELSE cache[id]]

\* a deliberately wrong variant: a failed lookup is not written to the cache
lookup_forgets_failure(service, has, album_id, album, cache_enabled, cache) ==
    IF cache_enabled /\ album_id \in DOMAIN cache
    THEN [cover |-> cache[album_id], cache |-> cache,
          calls |-> <<Ev("cache_hit", service, album_id)>>]
    ELSE LET url == IF album \in has
                    THEN "https://" \o service \o "/" \o album
                    ELSE MissingCover
         IN [cover |-> url,
             cache |-> IF cache_enabled /\ album \in has
                       THEN cache_set(cache, album_id, url)
                       ELSE cache,
             calls |-> <<Ev("lookup", service, album_id)>>]

\* one lookup function of utils: answer from the cache when it is enabled and
\* has the album, else ask the service, and write what came of it (the
\* negative result too) to the cache when it is enabled
lookup(service, has, album_id, album, cache_enabled, cache) ==
    IF cache_enabled /\ album_id \in DOMAIN cache
    THEN [cover |-> cache[album_id], cache |-> cache,
          calls |-> <<Ev("cache_hit", service, album_id)>>]
    ELSE LET url == IF album \in has
                    THEN "https://" \o service \o "/" \o album
                    ELSE MissingCover
         IN [cover |-> url,
             cache |-> IF cache_enabled THEN cache_set(cache, album_id, url)
                       ELSE cache,
             calls |-> <<Ev("lookup", service, album_id)>>]

\* utils::get_cover_url
get_cover_url(cfg, album_id, album, cache) ==
    lookup("lastfm", cfg.lastfm_has, album_id, album, cfg.cache_enabled, cache)

\* utils::get_cover_url_musicbrainz
get_cover_url_musicbrainz(cfg, album_id, album, cache) ==
    lookup("musicbrainz", cfg.musicbrainz_has, album_id, album,
           cfg.cache_enabled, cache)

\* "if album_id != last_album_id { ... }": the body
fetch_album_cover(cfg, album_id, album, cache) ==
    LET first ==
            IF ~cfg.lastfm_api_key
            THEN [cover |-> MissingCover, cache |-> cache, calls |-> <<>>]
            ELSE get_cover_url(cfg, album_id, album, cache)
        stripped == album_name_without_suffix(album)
        second ==
            IF cfg.lastfm_api_key /\ is_missing(first.cover) /\ stripped # ""
            THEN LET r == get_cover_url(cfg, album_id, stripped, first.cache)
                 IN [cover |-> r.cover, cache |-> r.cache,
                     calls |-> first.calls \o r.calls]
            ELSE first
    IN IF ~cfg.disable_musicbrainz_cover /\ is_missing(second.cover)
       THEN LET r == get_cover_url_musicbrainz(cfg, album_id, album, second.cache)
            IN [cover |-> r.cover, cache |-> r.cache,
                calls |-> second.calls \o r.calls]
       ELSE second

\* "let image: String = ..."
image_of(cfg, cover, art_url) ==
    IF is_missing(cover)
    THEN IF art_url = "" THEN MissingCover
         ELSE IF starts_with_http(art_url) /\ ~cfg.disable_mpris_art_url
              THEN art_url
              ELSE MissingCover
    ELSE cover

Count(calls, service, album_id) ==
    Cardinality({i \in 1..Len(calls) : calls[i] = Ev("lookup", service, album_id)})

\* the cover part of a cycle that gets past the skip test; its requests
CoverCalls(album_id, album) ==
    IF album_id # last_album_id
    THEN fetch_album_cover(art_cfg, album_id, album, album_cache).calls
    ELSE <<>>

Cover(album_id, album, art_url) ==
    LET r == IF album_id # last_album_id
             THEN fetch_album_cover(art_cfg, album_id, album, album_cache)
             ELSE [cover |-> _cover_url, cache |-> album_cache, calls |-> <<>>]
    IN /\ _cover_url' = r.cover
       /\ album_cache' = r.cache
       /\ image' = image_of(art_cfg, r.cover, art_url)
       /\ lookups' = [k \in DOMAIN lookups |->
                          lookups[k] + Count(r.calls, k[1], k[2])]
       /\ UNCHANGED art_cfg

\* the cover configurations: what is set, and the albums each service knows
ArtCfgs ==
    [lastfm_api_key : BOOLEAN,
     disable_musicbrainz_cover : BOOLEAN,
     cache_enabled : BOOLEAN,
     disable_mpris_art_url : BOOLEAN,
     lastfm_has : {{}, {"Mix"}},
     musicbrainz_has : {{}, {"LP"}}]

\* the loops of main() are run with no Last.fm key and without MusicBrainz
MainArtCfg ==
    [lastfm_api_key |-> FALSE,
     disable_musicbrainz_cover |-> TRUE,
     cache_enabled |-> TRUE,
     disable_mpris_art_url |-> FALSE,
     lastfm_has |-> {},
     musicbrainz_has |-> {}]

ArtInit ==
    /\ _cover_url = ""
    /\ album_cache = NoCache
    /\ image = ""
    /\ lookups = [k \in Services \X ArtAlbumIds |-> 0]

----------------------------------------------------------------------------
(* "Set activity": the parts of the payload *)

\* ---- the icon next to the album cover ----

NoSmall == <<>>

status_text(is_playing) == IF is_playing THEN "playing" ELSE "paused"

\* image.contains("ytimg.com/")
contains_ytimg(img) == img = "https://i.ytimg.com/vi/x"

\* "match small_image.as_str()"
small_by_mode(in) ==
    CASE in.small_image = "player" ->
            IF ~in.disable_mpris_art_url /\ contains_ytimg(in.image)
            THEN <<"youtube", "YouTube">>
            ELSE <<"player_id", "player_name">>
      [] in.small_image = "lastfmAvatar" ->
            IF in.lastfm_avatar # ""
            THEN <<in.lastfm_avatar, "lastfm_icon_text">>
            ELSE NoSmall
      [] in.small_image = "none" -> NoSmall
      [] OTHER -> <<status_text(in.is_playing), status_text(in.is_playing)>>

\* a deliberately wrong variant: the configured mode is followed when paused too
small_image_by_mode_only(in) == small_by_mode(in)

\* small_image and small_text of assets
small_image_of(in) ==
    IF status_text(in.is_playing) # "playing"
    THEN <<status_text(in.is_playing), status_text(in.is_playing)>>
    ELSE small_by_mode(in)

\* ---- the state line ----

\* media_info.artist.len() > 1
longer_than_one(artist) == artist # "B"

\* "let artist = match rpc_name.as_str()"
artist_line(in) ==
    IF in.rpc_name = "artist"
    THEN IF longer_than_one(in.artist) THEN in.artist ELSE in.artist \o " "
    ELSE "by: " \o in.artist

\* "Don't display Unknown Artist for videos": <<>> when payload.state is not set
state_of(in) ==
    LET artist == artist_line(in)
    IN IF ~(\/ in.is_video_player /\ to_lowercase(artist) = "by: unknown artist"
            \/ to_lowercase(artist) = "unknown artist")
       THEN <<artist>>
       ELSE <<>>

\* ---- the time stamps ----

\* the clock is before the epoch
BeforeEpoch == -1

time_start_of(reading, position) ==
    IF reading = BeforeEpoch THEN 0 ELSE time_start(reading, position)

\* main() panicked before any Timestamps was built
Panicked == [start |-> <<>>, end |-> <<>>]

\* activity::Timestamps: <<>> for a field that is not set; Panicked when the
\* subtraction or a try_into().unwrap() fails
timestamps_of(in) ==
    LET start == time_start_of(in.now, in.position)
        time_end == start + in.duration
    IN IF \/ in.now # BeforeEpoch /\ in.position > in.now
          \/ start > I64Max
       THEN Panicked
       ELSE IF in.is_track_position /\ in.duration > 0
       THEN IF in.is_playing
            THEN IF time_end > I64Max THEN Panicked
                 ELSE [start |-> <<start>>, end |-> <<time_end>>]
            ELSE [start |-> <<start>>, end |-> <<>>]
       ELSE [start |-> <<>>, end |-> <<start>>]

\* ---- the buttons ----

ButtonKinds == {"yt", "lastfm", "listenbrainz", "mprisUrl", "shamelessAd", "other"}

yt_button == [label |-> "Search this song on YouTube", url |-> "yt_url"]

\* the arm of "match button.as_str()": what the button pushes
pushed(button, in) ==
    CASE button = "yt" -> <<yt_button>>
      [] button = "lastfm" ->
            IF in.lastfm_name # ""
            THEN <<[label |-> "Last.fm profile", url |-> "lastfm_url"]>>
            ELSE <<>>
      [] button = "listenbrainz" ->
            IF in.listenbrainz_name # ""
            THEN <<[label |-> "Listenbrainz profile", url |-> "listenbrainz_url"]>>
            ELSE <<>>
      [] button = "mprisUrl" ->
            IF in.url = "" THEN <<yt_button>>
            ELSE IF in.is_video_player
                 THEN <<[label |-> "Watch Now", url |-> in.url]>>
                 ELSE <<[label |-> "Play Now", url |-> in.url]>>
      [] button = "shamelessAd" ->
            <<[label |-> "Get This RPC",
               url |-> "https://github.com/patryk-ku/music-discord-rpc"]>>
      [] OTHER -> <<>>

\* "for button in &settings.button": from the i-th on
RECURSIVE add_buttons(_, _, _, _)
add_buttons(in, i, buttons, first_button) ==
    IF i > Len(in.button) \/ Len(buttons) = 2 THEN buttons
    ELSE LET button == in.button[i]
         IN IF Len(buttons) > 0 /\ first_button = button
            THEN add_buttons(in, i + 1, buttons, first_button)
            ELSE LET new == pushed(button, in)
                 IN add_buttons(in, i + 1, buttons \o new,
                                IF new # <<>> THEN button ELSE first_button)

buttons_of(in) == add_buttons(in, 1, <<>>, "")

----------------------------------------------------------------------------
(* main(): the state before the first iteration of the outer loop *)

SettingsSet ==
    [allowlist : MainAllowlists,
     only_when_playing : BOOLEAN,
     list_players : BOOLEAN,
     get_player_id : BOOLEAN]

MainInit ==
    /\ pc = "outer"
    /\ current_player_bus_name = NoPlayer
    /\ client = "audio"
    /\ media_info = NoInfo
    /\ last_title = ""
    /\ last_album = ""
    /\ last_artist = ""
    /\ last_album_artist = ""
    /\ last_album_id = ""
    /\ last_track_position = 0
    /\ last_is_playing = FALSE
    /\ is_first_time_audio = TRUE
    /\ is_first_time_video = TRUE
    /\ is_interrupted = FALSE
    /\ is_activity_set = FALSE
    /\ dbus_notif = FALSE
    /\ player_notif = 0
    /\ discord_notif = FALSE
    /\ conn = [c \in Clients |-> FALSE]
    /\ shown = [c \in Clients |-> FALSE]
    /\ trace = <<>>
    /\ connected_once = [c \in Clients |-> FALSE]
    /\ last_notice = "none"
    /\ fail_pending = FALSE

SelIdle == [op |-> "none", res |-> NoPlayer, flag |-> FALSE, elig |-> {}]

NoPay == [kind |-> "none"]

Init ==
    /\ settings \in SettingsSet
    /\ MainInit
    /\ art_cfg = MainArtCfg
    /\ ArtInit
    /\ sel_cands = <<>>
    /\ sel_allow = <<>>
    /\ sel_out = SelIdle
    /\ pay_in = NoPay
    /\ pay_out = NoPay
    /\ refresh_due = "off"
    /\ iteration = "off"

----------------------------------------------------------------------------
(* The outer loop: one action per way through one iteration *)

\* PlayerFinder::new() fails
OuterDbusError ==
    /\ pc = "outer"
    /\ dbus_notif' = TRUE
    /\ trace' = IF ~dbus_notif THEN <<Say("Could not connect to D-Bus")>> ELSE <<>>
    /\ media_info' = NoInfo
    /\ UNCHANGED <<settings, pc, current_player_bus_name, client, tracked_vars,
                   is_first_time_audio, is_first_time_video, is_interrupted,
                   is_activity_set, player_notif, discord_notif, conn, shown,
                   sel_vars, pay_vars, art_vars>>
    /\ Observe(trace')

\* "List available players and exit"
OuterListPlayers ==
    /\ pc = "outer"
    /\ settings.list_players
    /\ dbus_notif' = FALSE
    /\ pc' = "exit_list_players"
    /\ trace' = <<Say("List of available music players")>>
    /\ media_info' = NoInfo
    /\ conn' = Gone
    /\ shown' = Gone
    /\ UNCHANGED <<settings, current_player_bus_name, client, tracked_vars,
                   is_first_time_audio, is_first_time_video, is_interrupted,
                   is_activity_set, player_notif, discord_notif, sel_vars, pay_vars, art_vars>>
    /\ Observe(trace')

no_player_text ==
    IF allowlist_enabled
    THEN "Could not find any active player from your allowlist"
    ELSE "Could not find any player"

\* selected_player is Err: notify once, clear the presence, sleep, continue
OuterNoPlayer ==
    /\ pc = "outer"
    /\ ~settings.list_players
    /\ settings.allowlist \in NoneSelected
    /\ LET cleared == clear_activity(is_activity_set, client)
       IN /\ dbus_notif' = FALSE
          /\ player_notif' = 2
          /\ discord_notif' = IF player_notif # 2 THEN FALSE ELSE discord_notif
          /\ is_interrupted' = TRUE
          /\ is_activity_set' = cleared.is_activity_set
          /\ shown' = cleared.shown
          /\ trace' = (IF player_notif # 2 THEN <<Say(no_player_text)>> ELSE <<>>)
                       \o cleared.calls
    /\ media_info' = NoInfo
    /\ UNCHANGED <<settings, pc, current_player_bus_name, client, tracked_vars,
                   is_first_time_audio, is_first_time_video, conn, sel_vars, pay_vars, art_vars>>
    /\ Observe(trace')

\* a deliberately wrong variant: the line is printed after every successful reconnect
reconnected_text_always == <<Say("Reconnected to Discord")>>

\* "if discord_notif { println!("Reconnected to Discord.") }"
reconnected_text ==
    IF discord_notif THEN <<Say("Reconnected to Discord")>> ELSE <<>>

\* a deliberately wrong variant: the line is printed for every player found
found_text_always == <<Say("Found active player")>>

found_text == IF player_notif # 1 THEN <<Say("Found active player")>> ELSE <<>>

\* a deliberately wrong variant: every player is given the audio client
client_for_audio_always(p) == "audio"

client_for(p) == IF p.identity \in video_players THEN "video" ELSE "audio"

\* a player is selected; what every such iteration does before Discord
Found(p) ==
    /\ pc = "outer"
    /\ ~settings.list_players
    /\ <<settings.allowlist, p>> \in SelectedPairs
    /\ dbus_notif' = FALSE
    /\ player_notif' = 1
    /\ current_player_bus_name' = p.bus
    /\ client' = client_for(p)
    /\ media_info' = NoInfo

\* "Display player ID and exit"
OuterGetPlayerId ==
    \E p \in MainPlayers :
        /\ Found(p)
        /\ settings.get_player_id
        /\ pc' = "exit_get_player_id"
        /\ trace' = found_text \o <<Say("player_id")>>
        /\ conn' = Gone
        /\ shown' = Gone
        /\ UNCHANGED <<settings, tracked_vars, is_first_time_audio,
                       is_first_time_video, is_interrupted, is_activity_set,
                       discord_notif, sel_vars, pay_vars, art_vars>>
        /\ Observe(trace')

\* client.connect() succeeds
OuterConnectOk ==
    \E p \in MainPlayers :
        /\ Found(p)
        /\ ~settings.get_player_id
        /\ use_connect(client_for(p) = "video")
        /\ discord_notif' = FALSE
        /\ is_first_time_video' = IF client_for(p) = "video" THEN FALSE
                                   ELSE is_first_time_video
        /\ is_first_time_audio' = IF client_for(p) = "video" THEN is_first_time_audio
                                   ELSE FALSE
        /\ conn' = [conn EXCEPT ![client_for(p)] = TRUE]
        /\ pc' = "inner"
        /\ trace' = found_text \o <<Ev("connect", client_for(p), "ok"),
                                     Say("Connected to Discord")>>
        /\ UNCHANGED <<settings, tracked_vars, is_interrupted, is_activity_set,
                       shown, sel_vars, pay_vars, art_vars>>
        /\ Observe(trace')

\* client.connect() fails
OuterConnectErr ==
    \E p \in MainPlayers :
        /\ Found(p)
        /\ ~settings.get_player_id
        /\ use_connect(client_for(p) = "video")
        /\ discord_notif' = TRUE
        /\ pc' = "outer"
        /\ trace' = found_text \o <<Ev("connect", client_for(p), "err")>>
                     \o (IF ~discord_notif
                         THEN <<Say("Could not connect to Discord")>> ELSE <<>>)
        /\ UNCHANGED <<settings, tracked_vars, is_first_time_audio,
                       is_first_time_video, is_interrupted, is_activity_set,
                       conn, shown, sel_vars, pay_vars, art_vars>>
        /\ Observe(trace')

\* client.reconnect() closes the handle, opens it again, and succeeds
OuterReconnectOk ==
    \E p \in MainPlayers :
        /\ Found(p)
        /\ ~settings.get_player_id
        /\ ~use_connect(client_for(p) = "video")
        /\ is_interrupted' = TRUE
        /\ discord_notif' = FALSE
        /\ conn' = [conn EXCEPT ![client_for(p)] = TRUE]
        /\ shown' = [shown EXCEPT ![client_for(p)] = FALSE]
        /\ pc' = "inner"
        /\ trace' = found_text \o <<Ev("reconnect", client_for(p), "ok")>>
                     \o reconnected_text
        /\ UNCHANGED <<settings, tracked_vars, is_first_time_audio,
                       is_first_time_video, is_activity_set, sel_vars, pay_vars, art_vars>>
        /\ Observe(trace')

\* client.reconnect() closes the handle and fails to open it again
OuterReconnectErr ==
    \E p \in MainPlayers :
        /\ Found(p)
        /\ ~settings.get_player_id
        /\ ~use_connect(client_for(p) = "video")
        /\ discord_notif' = TRUE
        /\ conn' = [conn EXCEPT ![client_for(p)] = FALSE]
        /\ shown' = [shown EXCEPT ![client_for(p)] = FALSE]
        /\ pc' = "outer"
        /\ trace' = found_text \o <<Ev("reconnect", client_for(p), "err")>>
                     \o (IF ~discord_notif
                         THEN <<Say("Could not reconnect to Discord")>> ELSE <<>>)
        /\ UNCHANGED <<settings, tracked_vars, is_first_time_audio,
                       is_first_time_video, is_interrupted, is_activity_set,
                       sel_vars, pay_vars, art_vars>>
        /\ Observe(trace')

----------------------------------------------------------------------------
(* The inner loop: one action per way through one iteration *)

\* utils::get_currently_playing fails: clear the presence, break
InnerReadError ==
    /\ pc = "inner"
    /\ LET cleared == clear_activity(is_activity_set, client)
       IN /\ is_activity_set' = cleared.is_activity_set
          /\ shown' = cleared.shown
          /\ trace' = <<Say("Could not get metadata from player")>> \o cleared.calls
    /\ pc' = "outer"
    /\ media_info' = NoInfo
    /\ UNCHANGED <<settings, current_player_bus_name, client, tracked_vars,
                   is_first_time_audio, is_first_time_video, is_interrupted,
                   dbus_notif, player_notif, discord_notif, conn, sel_vars, pay_vars, art_vars>>
    /\ Observe(trace')

\* not playing and only_when_playing: clear the presence, sleep, continue
InnerPausedFiltered ==
    \E s \in Snapshots :
        /\ pc = "inner"
        /\ ~s.is_playing
        /\ settings.only_when_playing
        /\ media_info' = s
        /\ is_interrupted' = TRUE
        /\ LET cleared == clear_activity(is_activity_set, client)
           IN /\ is_activity_set' = cleared.is_activity_set
              /\ shown' = cleared.shown
              /\ trace' = cleared.calls
        /\ UNCHANGED <<settings, pc, current_player_bus_name, client,
                       tracked_vars, is_first_time_audio, is_first_time_video,
                       dbus_notif, player_notif, discord_notif, conn, sel_vars, pay_vars, art_vars>>
        /\ Observe(trace')

\* not playing and another eligible player is playing: sleep, break
InnerReselect ==
    \E s \in Snapshots :
        /\ pc = "inner"
        /\ ~s.is_playing
        /\ ~settings.only_when_playing
        /\ <<settings.allowlist, current_player_bus_name, TRUE>> \in ProbeOutcomes
        /\ media_info' = s
        /\ is_interrupted' = TRUE
        /\ pc' = "outer"
        /\ trace' = <<>>
        /\ UNCHANGED <<settings, current_player_bus_name, client, tracked_vars,
                       is_first_time_audio, is_first_time_video, is_activity_set,
                       dbus_notif, player_notif, discord_notif, conn, shown,
                       sel_vars, pay_vars, art_vars>>
        /\ Observe(trace')

\* unknown or empty metadata: sleep, break
InnerUnusable ==
    \E s \in Snapshots :
        /\ pc = "inner"
        /\ reaches_checks(s)
        /\ is_unknown_metadata(s) \/ is_empty_metadata(s)
        /\ media_info' = s
        /\ is_interrupted' = interrupted_now(s)
        /\ pc' = "outer"
        /\ trace' = <<>>
        /\ UNCHANGED <<settings, current_player_bus_name, client, tracked_vars,
                       is_first_time_audio, is_first_time_video, is_activity_set,
                       dbus_notif, player_notif, discord_notif, conn, shown,
                       sel_vars, pay_vars, art_vars>>
        /\ Observe(trace')

\* a deliberately wrong variant: the position is stored only when the cycle goes on to publish
Checked_position_on_publish(s) ==
    /\ pc = "inner"
    /\ reaches_checks(s)
    /\ ~is_unknown_metadata(s)
    /\ ~is_empty_metadata(s)
    /\ media_info' = s
    /\ last_track_position' = IF skips_publish(s) THEN last_track_position
                              ELSE s.position

\* the snapshot gets to the change check
Checked(s) ==
    /\ pc = "inner"
    /\ reaches_checks(s)
    /\ ~is_unknown_metadata(s)
    /\ ~is_empty_metadata(s)
    /\ media_info' = s
    /\ last_track_position' = s.position

\* what the debug log shows of the change check
check_log(s) ==
    Ev("metadata_changed",
       IF metadata_changed(s) THEN "true" ELSE "false",
       IF interrupted_now(s) THEN "interrupted" ELSE "not interrupted")

\* "The same metadata and status, skipping..."
InnerUnchanged ==
    \E s \in Snapshots :
        /\ Checked(s)
        /\ skips_publish(s)
        /\ is_interrupted' = interrupted_now(s)
        /\ trace' = <<check_log(s)>>
        /\ UNCHANGED <<settings, pc, current_player_bus_name, client,
                       last_title, last_album, last_artist, last_album_artist,
                       last_album_id, last_is_playing, is_first_time_audio,
                       is_first_time_video, is_activity_set, dbus_notif,
                       player_notif, discord_notif, conn, shown, sel_vars, pay_vars, art_vars>>
        /\ Observe(trace')

\* "Save last refresh info"
SaveLast(s) ==
    /\ last_title' = s.title
    /\ last_album' = s.album
    /\ last_artist' = s.artist
    /\ last_album_artist' = s.album_artist
    /\ last_album_id' = album_id_of(s)
    /\ last_is_playing' = s.is_playing

\* the time stamps cannot be built: main() panics
InnerPanic ==
    \E s \in Snapshots, now \in Clock :
        /\ Checked(s)
        /\ ~skips_publish(s)
        /\ timestamps_panic(now, s)
        /\ is_interrupted' = interrupted_now(s)
        /\ pc' = "panic"
        /\ trace' = <<check_log(s)>>
        /\ conn' = Gone
        /\ shown' = Gone
        /\ UNCHANGED <<settings, current_player_bus_name, client,
                       last_title, last_album, last_artist, last_album_artist,
                       last_album_id, last_is_playing, is_first_time_audio,
                       is_first_time_video, is_activity_set, dbus_notif,
                       player_notif, discord_notif, sel_vars, pay_vars, art_vars>>
        /\ Observe(trace')

\* the snapshot s, with art url art_url, is published at time now
PublishOk(s, now, art_url) ==
    /\ Checked(s)
    /\ ~skips_publish(s)
    /\ ~timestamps_panic(now, s)
    /\ Cover(album_id_of(s), s.album, art_url)
    /\ SaveLast(s)
    /\ is_interrupted' = FALSE
    /\ is_activity_set' = TRUE
    /\ shown' = [shown EXCEPT ![client] = TRUE]
    /\ trace' = <<check_log(s)>> \o CoverCalls(album_id_of(s), s.album)
                 \o <<Ev("set_activity", client, "ok"), Say("Set activity")>>
    /\ UNCHANGED <<settings, pc, current_player_bus_name, client,
                   is_first_time_audio, is_first_time_video, dbus_notif,
                   player_notif, discord_notif, conn, sel_vars, pay_vars>>
    /\ Observe(trace')

\* client.set_activity(payload) succeeds
InnerPublishOk ==
    \E s \in Snapshots, now \in Clock : PublishOk(s, now, "")

\* client.set_activity(payload) fails and client.close() succeeds: break
InnerPublishErr ==
    \E s \in Snapshots, now \in Clock :
        /\ Checked(s)
        /\ ~skips_publish(s)
        /\ ~timestamps_panic(now, s)
        /\ Cover(album_id_of(s), s.album, "")
        /\ SaveLast(s)
        /\ is_interrupted' = TRUE
        /\ is_activity_set' = FALSE
        /\ conn' = [conn EXCEPT ![client] = FALSE]
        /\ shown' = [shown EXCEPT ![client] = FALSE]
        /\ pc' = "outer"
        /\ trace' = <<check_log(s)>> \o CoverCalls(album_id_of(s), s.album)
                     \o <<Ev("set_activity", client, "err"),
                          Say("Could not set activity"), Ev("close", client, "ok")>>
        /\ UNCHANGED <<settings, current_player_bus_name, client,
                       is_first_time_audio, is_first_time_video, dbus_notif,
                       player_notif, discord_notif, sel_vars, pay_vars>>
        /\ Observe(trace')

\* client.set_activity(payload) fails and so does client.close(): the "?"
\* returns the error from main()
InnerCloseErr ==
    \E s \in Snapshots, now \in Clock :
        /\ Checked(s)
        /\ ~skips_publish(s)
        /\ ~timestamps_panic(now, s)
        /\ Cover(album_id_of(s), s.album, "")
        /\ SaveLast(s)
        /\ is_interrupted' = TRUE
        /\ is_activity_set' = FALSE
        /\ pc' = "exit_close_error"
        /\ trace' = <<check_log(s)>> \o CoverCalls(album_id_of(s), s.album)
                     \o <<Ev("set_activity", client, "err"),
                          Say("Could not set activity"), Ev("close", client, "err")>>
        /\ conn' = Gone
        /\ shown' = Gone
        /\ UNCHANGED <<settings, current_player_bus_name, client,
                       is_first_time_audio, is_first_time_video, dbus_notif,
                       player_notif, discord_notif, sel_vars, pay_vars>>
        /\ Observe(trace')

----------------------------------------------------------------------------
(* main() *)

Next ==
    \/ OuterDbusError
    \/ OuterListPlayers
    \/ OuterNoPlayer
    \/ OuterGetPlayerId
    \/ OuterConnectOk
    \/ OuterConnectErr
    \/ OuterReconnectOk
    \/ OuterReconnectErr
    \/ InnerReadError
    \/ InnerPausedFiltered
    \/ InnerReselect
    \/ InnerUnusable
    \/ InnerUnchanged
    \/ InnerPublishOk
    \/ InnerPublishErr
    \/ InnerCloseErr
    \/ InnerPanic

Spec == Init /\ [][Next]_vars

\* the same loops, with refresh_due recorded
InitRefresh ==
    /\ settings \in SettingsSet
    /\ MainInit
    /\ art_cfg = MainArtCfg
    /\ ArtInit
    /\ sel_cands = <<>>
    /\ sel_allow = <<>>
    /\ sel_out = SelIdle
    /\ pay_in = NoPay
    /\ pay_out = NoPay
    /\ refresh_due = "no"
    /\ iteration = "off"

SpecRefresh == InitRefresh /\ [][Next]_vars

\* the loops with their iterations counted (every iteration ends in a sleep
\* of `interval` seconds and the next one starts); run without an allowlist,
\* --list-players, --get-player-id and only_when_playing
InitLive ==
    /\ settings = [allowlist |-> <<>>, only_when_playing |-> FALSE,
                   list_players |-> FALSE, get_player_id |-> FALSE]
    /\ MainInit
    /\ art_cfg = MainArtCfg
    /\ ArtInit
    /\ sel_cands = <<>>
    /\ sel_allow = <<>>
    /\ sel_out = SelIdle
    /\ pay_in = NoPay
    /\ pay_out = NoPay
    /\ refresh_due = "off"
    /\ iteration = "even"

NextLive ==
    \/ OuterDbusError
    \/ OuterNoPlayer
    \/ OuterConnectOk
    \/ OuterConnectErr
    \/ OuterReconnectOk
    \/ OuterReconnectErr
    \/ InnerReadError
    \/ InnerReselect
    \/ InnerUnusable
    \/ InnerUnchanged
    \/ InnerPublishOk
    \/ InnerPublishErr
    \/ InnerCloseErr
    \/ InnerPanic

\* main() does not stop between two iterations: after the sleep the next
\* iteration starts, until main() returns or panics
SpecLive == InitLive /\ [][NextLive]_vars /\ WF_vars(NextLive)

----------------------------------------------------------------------------
(* One selection on drawn inputs: specification SpecSel *)

SelCandidates ==
    {[bus |-> b, identity |-> n, status |-> st.status, valid |-> st.valid] :
        b \in BusNames, n \in Identities, st \in PlayerStates \ {Absent}}

\* D-Bus gives every player its own bus name
DistinctBuses(seq) ==
    \A i, j \in 1..Len(seq) : i # j => seq[i].bus # seq[j].bus

SelEnumerations ==
    {seq \in UNION {[1..n -> SelCandidates] : n \in 0..MaxCands} :
        DistinctBuses(seq)}

\* allowlists that name no pattern twice
SelAllowlists ==
    {al \in UNION {[1..n -> Patterns] : n \in 1..MaxPatterns} :
        \A i, j \in 1..Len(al) : i # j => al[i] # al[j]}

InitSel ==
    /\ settings = [allowlist |-> <<>>, only_when_playing |-> FALSE,
                   list_players |-> FALSE, get_player_id |-> FALSE]
    /\ MainInit
    /\ art_cfg = MainArtCfg
    /\ ArtInit
    /\ sel_cands \in SelEnumerations
    /\ sel_allow \in SelAllowlists
    /\ sel_out = SelIdle
    /\ pay_in = NoPay
    /\ pay_out = NoPay
    /\ refresh_due = "off"
    /\ iteration = "off"

BusesOf(seq) == {seq[i].bus : i \in 1..Len(seq)}

\* "Find all players and select by priority"
SelSelect ==
    /\ sel_out.op = "none"
    /\ LET best == allowlist_finder(sel_cands, sel_allow)
       IN sel_out' = [op |-> "select",
                      res |-> IF best = NoPlayer THEN NoPlayer ELSE best.bus,
                      flag |-> best # NoPlayer,
                      elig |-> BusesOf(candidates_with_priority(sel_cands, sel_allow))]
    /\ UNCHANGED <<sel_cands, sel_allow, main_vars, pay_vars>>

\* the reselection probe while the player with bus name cur is tracked
SelProbe ==
    /\ sel_out.op = "none"
    /\ \E cur \in BusNames :
          sel_out' = [op |-> "probe",
                      res |-> cur,
                      flag |-> should_reselect(sel_cands, cur, TRUE, sel_allow),
                      elig |-> {sel_cands[i].bus : i \in
                                  {j \in 1..Len(sel_cands) :
                                     is_player_allowlisted(sel_cands[j], sel_allow)}}]
    /\ UNCHANGED <<sel_cands, sel_allow, main_vars, pay_vars>>

\* the allowlist check of the macOS build on the player id it was given
SelMacCheck ==
    /\ sel_out.op = "none"
    /\ \E i \in 1..Len(sel_cands) :
          sel_out' = [op |-> "mac",
                      res |-> sel_cands[i].identity,
                      flag |-> mac_is_player_on_allowlist(sel_cands[i].identity,
                                                          sel_allow),
                      elig |-> {}]
    /\ UNCHANGED <<sel_cands, sel_allow, main_vars, pay_vars>>

NextSel ==
    \/ SelSelect
    \/ SelProbe
    \/ SelMacCheck

SpecSel == InitSel /\ [][NextSel]_vars

----------------------------------------------------------------------------
(* The reselection probe on drawn players: specification SpecProbe *)

\* mpris::Metadata as has_valid_metadata reads it: title() is <<>> for None,
\* artists() is <<>> for None
ProbeMetas ==
    [title : {<<>>, <<"">>, <<"Song">>},
     artists : {<<>>, <<"">>, <<"Band">>}]

has_valid_metadata(meta) ==
    LET has_title == meta.title # <<>>
        has_artist == meta.artists # <<>> /\ meta.artists[1] # ""
    IN has_title /\ has_artist

ProbeCandidates ==
    {[bus |-> b, identity |-> n, status |-> st, meta |-> m,
      valid |-> has_valid_metadata(m)] :
        b \in BusNames, n \in Identities, st \in {"Playing", "Paused"},
        m \in ProbeMetas}

ProbeEnumerations ==
    {seq \in UNION {[1..n -> ProbeCandidates] : n \in 0..MaxCands} :
        DistinctBuses(seq)}

ProbeAllowlists == {<<>>, <<(<<1>>)>>, <<(<<1, Star>>)>>}

InitProbe ==
    /\ settings = [allowlist |-> <<>>, only_when_playing |-> FALSE,
                   list_players |-> FALSE, get_player_id |-> FALSE]
    /\ MainInit
    /\ art_cfg = MainArtCfg
    /\ ArtInit
    /\ sel_cands \in ProbeEnumerations
    /\ sel_allow \in ProbeAllowlists
    /\ sel_out = SelIdle
    /\ pay_in = NoPay
    /\ pay_out = NoPay
    /\ refresh_due = "off"
    /\ iteration = "off"

\* "let should_reselect = ..." while the player with bus name cur is tracked
ProbeRun ==
    /\ sel_out.op = "none"
    /\ \E cur \in BusNames :
          sel_out' = [op |-> "probe",
                      res |-> cur,
                      flag |-> should_reselect(sel_cands, cur,
                                               Len(sel_allow) > 0, sel_allow),
                      elig |-> {}]
    /\ UNCHANGED <<sel_cands, sel_allow, main_vars, pay_vars>>

NextProbe == ProbeRun

SpecProbe == InitProbe /\ [][NextProbe]_vars

----------------------------------------------------------------------------
(* Publish cycles under every cover configuration: specification SpecArt *)

\* snapshots of two tracks on each of the albums, playing
ArtSnapshots ==
    {[title |-> t, artist |-> "Band", album |-> a, album_artist |-> "Band",
      position |-> 0, is_playing |-> TRUE] :
        t \in {"Song", "Tune"}, a \in ArtAlbums}

InitArt ==
    /\ settings = [allowlist |-> <<>>, only_when_playing |-> FALSE,
                   list_players |-> FALSE, get_player_id |-> FALSE]
    /\ MainInit
    /\ art_cfg \in ArtCfgs
    /\ ArtInit
    /\ sel_cands = <<>>
    /\ sel_allow = <<>>
    /\ sel_out = SelIdle
    /\ pay_in = NoPay
    /\ pay_out = NoPay
    /\ refresh_due = "off"
    /\ iteration = "off"

\* a publish of one of the tracks, its art url being any of ArtUrls
ArtPublishOk ==
    \E s \in ArtSnapshots, art_url \in ArtUrls :
        /\ \A k \in DOMAIN lookups : lookups[k] < MaxLookups
        /\ PublishOk(s, MaxPos, art_url)

NextArt ==
    \/ OuterConnectOk
    \/ ArtPublishOk

SpecArt == InitArt /\ [][NextArt]_vars

----------------------------------------------------------------------------
(* One part of a payload built from drawn inputs: specification SpecPay *)

SmallInputs ==
    [kind : {"small"},
     is_playing : BOOLEAN,
     small_image : {"player", "lastfmAvatar", "playPause", "none"},
     lastfm_avatar : {"", "https://lastfm/avatar"},
     image : {MissingCover, "https://i.ytimg.com/vi/x"},
     disable_mpris_art_url : BOOLEAN]

StateInputs ==
    [kind : {"state"},
     is_video_player : BOOLEAN,
     rpc_name : {"artist", "track", "none"},
     artist : {"Band", "B", "Unknown Artist", "unknown artist"}]

TimeInputs ==
    [kind : {"time"},
     now : Clock \cup {BeforeEpoch},
     position : 0..MaxPos,
     is_track_position : BOOLEAN,
     duration : 0..MaxDuration,
     is_playing : BOOLEAN]

ButtonInputs ==
    [kind : {"buttons"},
     button : UNION {[1..n -> ButtonKinds] : n \in 0..MaxButtons},
     lastfm_name : {"", "me"},
     listenbrainz_name : {"", "me"},
     url : {"", "https://track"},
     is_video_player : BOOLEAN]

\* album artists and album names, some of them holding the separator that
\* album_id puts between the two
AlbumTexts == {"", "A", "A - B", "B", "B - C", "C"}

AlbumPairs == [album_artist : AlbumTexts, album : AlbumTexts]

\* the albums of two snapshots
AlbumInputs == [kind : {"album"}, first : AlbumPairs, second : AlbumPairs]

InitPay ==
    /\ settings = [allowlist |-> <<>>, only_when_playing |-> FALSE,
                   list_players |-> FALSE, get_player_id |-> FALSE]
    /\ MainInit
    /\ art_cfg = MainArtCfg
    /\ ArtInit
    /\ sel_cands = <<>>
    /\ sel_allow = <<>>
    /\ sel_out = SelIdle
    /\ pay_in \in SmallInputs \cup StateInputs \cup TimeInputs \cup ButtonInputs
                    \cup AlbumInputs
    /\ pay_out = NoPay
    /\ refresh_due = "off"
    /\ iteration = "off"

Built(kind, part) ==
    /\ pay_in.kind = kind
    /\ pay_out = NoPay
    /\ pay_out' = [kind |-> kind, part |-> part]
    /\ UNCHANGED <<pay_in, sel_vars, main_vars>>

PaySmallImage == Built("small", small_image_of(pay_in))

PayState == Built("state", state_of(pay_in))

PayTimestamps == Built("time", timestamps_of(pay_in))

PayButtons == Built("buttons", buttons_of(pay_in))

\* "let album_id = format!(...)" for each of the two snapshots
PayAlbumId ==
    Built("album", <<album_id_of(pay_in.first), album_id_of(pay_in.second)>>)

NextPay ==
    \/ PaySmallImage
    \/ PayState
    \/ PayTimestamps
    \/ PayButtons
    \/ PayAlbumId

SpecPay == InitPay /\ [][NextPay]_vars

----------------------------------------------------------------------------
(* The allowlist rule and the selection order as the specification words them *)

EndsWithStar(pattern) == Len(pattern) > 0 /\ pattern[Len(pattern)] = Star

\* a pattern ending in '*' matches the names that start with the rest of it,
\* any other pattern matches the name equal to it
RuleMatches(name, pattern) ==
    IF EndsWithStar(pattern)
    THEN /\ Len(name) >= Len(pattern) - 1
         /\ \A i \in 1..(Len(pattern) - 1) : name[i] = pattern[i]
    ELSE name = pattern

RuleAllowlisted(c, allowlist) ==
    \E i \in 1..Len(allowlist) :
        RuleMatches(c.bus, allowlist[i]) \/ RuleMatches(c.identity, allowlist[i])

RuleRank(c, allowlist) ==
    CHOOSE i \in 0..(Len(allowlist) - 1) :
        /\ RuleMatches(c.bus, allowlist[i + 1]) \/ RuleMatches(c.identity, allowlist[i + 1])
        /\ \A j \in 0..(i - 1) :
              ~(RuleMatches(c.bus, allowlist[j + 1]) \/ RuleMatches(c.identity, allowlist[j + 1]))

RulePriority(c) ==
    IF c.status = "Playing" THEN 0 ELSE IF c.status = "Paused" THEN 1 ELSE 2

RuleQuality(c) == IF c.valid THEN 0 ELSE 1

\* (playbackPriority, allowlistRank, metadataQuality, id), ascending
RuleBefore(c, d, allowlist) ==
    LET pc1 == RulePriority(c)
        pd1 == RulePriority(d)
        rc == RuleRank(c, allowlist)
        rd == RuleRank(d, allowlist)
        qc == RuleQuality(c)
        qd == RuleQuality(d)
    IN \/ pc1 < pd1
       \/ pc1 = pd1 /\ rc < rd
       \/ pc1 = pd1 /\ rc = rd /\ qc < qd
       \/ pc1 = pd1 /\ rc = rd /\ qc = qd /\ StrLess(c.bus, d.bus)

\* the candidates of a selection: allowlisted, and not the playerctld proxy
RuleEligible(seq, allowlist) ==
    {c \in Range(seq) : c.bus # Playerctld /\ RuleAllowlisted(c, allowlist)}

Reorderings(seq) ==
    {[i \in 1..Len(seq) |-> seq[f[i]]] :
        f \in {g \in [1..Len(seq) -> 1..Len(seq)] :
                  \A i, j \in 1..Len(seq) : i # j => g[i] # g[j]}}

\* C1: with an allowlist, the selection returns the one allowlisted candidate
\* that is least by (playbackPriority, allowlistRank, metadataQuality, id), and
\* none when no candidate is allowlisted; every enumeration order of the same
\* players gives the same player; a playing candidate beats every candidate
\* that is not playing, whatever their ranks.
C1_SelectsLeastTuple ==
    sel_out.op = "select" =>
        LET elig == RuleEligible(sel_cands, sel_allow)
        IN /\ elig = {} => sel_out.res = NoPlayer
           /\ elig # {} =>
                \E c \in elig :
                    /\ sel_out.res = c.bus
                    /\ \A d \in elig \ {c} : RuleBefore(c, d, sel_allow)
                    /\ (\E d \in elig : d.status = "Playing") => c.status = "Playing"
           /\ \A perm \in Reorderings(sel_cands) :
                LET other == allowlist_finder(perm, sel_allow)
                IN sel_out.res = IF other = NoPlayer THEN NoPlayer ELSE other.bus

\* C1 witness: a playing candidate of worse rank was chosen over a paused one
C1_Witness ==
    /\ sel_out.op = "select"
    /\ \E c, d \in RuleEligible(sel_cands, sel_allow) :
          /\ sel_out.res = c.bus
          /\ c.status = "Playing"
          /\ d.status = "Paused"
          /\ RuleRank(d, sel_allow) < RuleRank(c, sel_allow)

\* C2: wherever the allowlist is applied (selection, reselection probe, the
\* check of the macOS build), a player is eligible iff its id or its name
\* matches a pattern by the rule: prefix for a pattern ending in '*', equality
\* otherwise.
C2_SameRuleEverywhere ==
    /\ sel_out.op = "select" =>
          sel_out.elig = {c.bus : c \in RuleEligible(sel_cands, sel_allow)}
    /\ sel_out.op = "probe" =>
          sel_out.elig =
            {c.bus : c \in {d \in Range(sel_cands) : RuleAllowlisted(d, sel_allow)}}
    /\ sel_out.op = "mac" =>
          sel_out.flag = \E i \in 1..Len(sel_allow) : RuleMatches(sel_out.res, sel_allow[i])

\* the part of C2 about the Linux build
C2_LinuxRule ==
    /\ sel_out.op = "select" =>
          sel_out.elig = {c.bus : c \in RuleEligible(sel_cands, sel_allow)}
    /\ sel_out.op = "probe" =>
          sel_out.elig =
            {c.bus : c \in {d \in Range(sel_cands) : RuleAllowlisted(d, sel_allow)}}

----------------------------------------------------------------------------
(* The loops of main() against the specification *)

\* an inner iteration of this step read the snapshot media_info'
Polled == pc = "inner" /\ media_info' # NoInfo

\* artist, album and title all equal, whatever the case, their "unknown X"
\* words, or artist or title empty
Unusable(s) ==
    \/ /\ to_lowercase(s.artist) = "unknown artist"
       /\ to_lowercase(s.album) = "unknown album"
       /\ to_lowercase(s.title) = "unknown title"
    \/ s.artist = ""
    \/ s.title = ""

\* the iteration ended before the change check: paused under
\* only_when_playing, or left for a reselection
EndedAtPolicy ==
    /\ ~media_info'.is_playing
    /\ \/ settings.only_when_playing
       \/ pc' = "outer" /\ trace' = <<>>

\* the iteration did not take the skip branch: it went on to build the
\* payload and to send it
PublishPath == Has(trace', "set_activity") \/ pc' = "panic"

\* C3: when the change check runs on a usable snapshot, the iteration goes on
\* to publish iff a tracked field (title, album, artist, albumArtist,
\* isPlaying) differs from the stored one, or the position is below the stored
\* one with no field changed, or interrupted is set at that moment (it was
\* set before the iteration, or the snapshot is not playing and has set it).
C3_PublishIffChanged ==
    [][(Polled /\ ~Unusable(media_info') /\ ~EndedAtPolicy) =>
          LET s == media_info'
              metadataChanged ==
                  \/ s.title # last_title
                  \/ s.album # last_album
                  \/ s.artist # last_artist
                  \/ s.album_artist # last_album_artist
                  \/ s.is_playing # last_is_playing
              positionRegressed ==
                  s.position < last_track_position /\ ~metadataChanged
              interrupted == is_interrupted \/ ~s.is_playing
          IN /\ Has(trace', "metadata_changed")
             /\ PublishPath <=>
                  \/ metadataChanged
                  \/ positionRegressed
                  \/ interrupted]_vars

\* C3 witness: a publish made for a change alone, interrupted not set
C3_Witness ==
    /\ Has(trace, "set_activity")
    /\ trace[1] = Ev("metadata_changed", "true", "not interrupted")

\* C4 as claimed: an unusable snapshot causes no publish, no clear, no
\* notification and no change of any tracked field, interrupted or
\* activitySet.
C4_UnusableChangesNothing ==
    [][(Polled /\ Unusable(media_info')) =>
          /\ ~Has(trace', "set_activity")
          /\ ~Has(trace', "clear_activity")
          /\ ~Has(trace', "print")
          /\ UNCHANGED <<tracked_vars, is_interrupted, is_activity_set>>]_vars

\* C4 amended: an unusable snapshot causes no publish and no notification and
\* leaves the stored title, album, artist, albumArtist, albumId, position and
\* isPlaying as they were; interrupted changes only by being set, for a
\* snapshot that is not playing; the presence is cleared only for a snapshot
\* that is not playing under only_when_playing, the one case in which polling
\* continues; in every other case the inner loop is left.
C4_UnusableAmended ==
    [][(Polled /\ Unusable(media_info')) =>
          /\ ~Has(trace', "set_activity")
          /\ ~Has(trace', "print")
          /\ UNCHANGED tracked_vars
          /\ is_interrupted' = (is_interrupted \/ ~media_info'.is_playing)
          /\ (Has(trace', "clear_activity") \/ is_activity_set' # is_activity_set) =>
                /\ ~media_info'.is_playing
                /\ settings.only_when_playing
                /\ ~is_activity_set'
          /\ pc' = "inner" <=> (~media_info'.is_playing /\ settings.only_when_playing)
          /\ pc' \in {"inner", "outer"}]_vars

\* C4 witness: an unusable playing snapshot was read while a presence of
\* another track was shown, and the loop was left
C4_Witness ==
    /\ pc = "outer"
    /\ media_info # NoInfo
    /\ Unusable(media_info)
    /\ media_info.is_playing
    /\ is_activity_set
    /\ last_title = "Song"

\* C5: while the process runs, activitySet is true exactly when Discord
\* shows a presence that this process published.
C5_ActivitySetIffShown ==
    pc \in {"outer", "inner"} =>
        (is_activity_set <=> (shown["audio"] \/ shown["video"]))

\* C6: at most one of the two identities shows a presence.
C6_OneIdentityShown == ~(shown["audio"] /\ shown["video"])

\* C7: the process ends only by one of the two introspection commands.
C7_OnlyIntrospectionExits ==
    pc \in {"outer", "inner", "exit_list_players", "exit_get_player_id"}

\* C8: after a failed publish activitySet is false, interrupted is true, the
\* handle is closed and control is back in the outer loop.
C8_FailedPublishBackInOuter ==
    Ev("set_activity", client, "err") \in Range(trace) =>
        /\ pc = "outer"
        /\ ~is_activity_set
        /\ is_interrupted
        /\ ~conn[client]

\* C9: on each identity, connect is what is called until a connection of that
\* identity has succeeded once, and reconnect is what is called ever after;
\* no inner loop is entered without one of the two succeeding on the identity
\* of the selected player.
C9_ConnectOnceThenReconnect ==
    [][/\ \A c \in Clients, r \in {"ok", "err"} :
            /\ Ev("connect", c, r) \in Range(trace') => ~connected_once[c]
            /\ Ev("reconnect", c, r) \in Range(trace') => connected_once[c]
       /\ (pc = "outer" /\ pc' = "inner") =>
            \/ Ev("connect", client', "ok") \in Range(trace')
            \/ Ev("reconnect", client', "ok") \in Range(trace')]_vars

\* C9 witness: the video identity is re-entered by reconnect after the audio
\* identity had connected too
C9_Witness ==
    /\ Ev("reconnect", "video", "ok") \in Range(trace)
    /\ connected_once["audio"]

\* C10: "Reconnected" is printed only if "Could not connect" or "Could not
\* reconnect" was printed since the last successful connect or reconnect.
C10_ReconnectedAfterFailure ==
    [][Said(trace', "Reconnected to Discord") => fail_pending]_vars

\* C10 witness: "Reconnected" was printed
C10_Witness == Said(trace, "Reconnected to Discord")

\* the step ran the clear routine: no player was selected, the read failed, or
\* a snapshot that is not playing was met under only_when_playing
ClearRan ==
    \/ pc = "outer" /\ pc' = "outer" /\ player_notif' = 2 /\ is_interrupted'
          /\ ~Has(trace', "connect") /\ ~Has(trace', "reconnect")
          /\ ~Said(trace', "Could not connect to D-Bus") /\ dbus_notif' = FALSE
          /\ ~Said(trace', "Found active player")
    \/ Said(trace', "Could not get metadata from player")
    \/ Polled /\ ~media_info'.is_playing /\ settings.only_when_playing

\* C11: the clear routine calls the sink only when activitySet is true, at
\* most once, and leaves activitySet false; activitySet becomes true again
\* only by a successful publish, so that clears with no publish in between
\* make at most one sink call.
C11_ClearIdempotent ==
    [][/\ Has(trace', "clear_activity") => (ClearRan /\ is_activity_set)
       /\ Cardinality({i \in 1..Len(trace') : trace'[i][1] = "clear_activity"}) <= 1
       /\ ClearRan =>
            /\ ~is_activity_set'
            /\ Has(trace', "clear_activity") <=> is_activity_set
       /\ (~is_activity_set /\ is_activity_set') =>
            Ev("set_activity", client, "ok") \in Range(trace')]_vars

\* C11 witness: after an earlier publish and its clear, a paused poll under
\* only_when_playing ran the clear routine again and no sink call was made
C11_Witness ==
    /\ pc = "inner"
    /\ media_info # NoInfo
    /\ ~media_info.is_playing
    /\ settings.only_when_playing
    /\ last_title # ""
    /\ trace = <<>>
    /\ ~is_activity_set

----------------------------------------------------------------------------
(* The album cover against the specification *)

Configured(service) ==
    IF service = "lastfm" THEN art_cfg.lastfm_api_key
    ELSE ~art_cfg.disable_musicbrainz_cover

\* every lookup of the album fails
Unresolvable(album) ==
    /\ album \notin art_cfg.lastfm_has
    /\ album_name_without_suffix(album) \notin art_cfg.lastfm_has
    /\ album \notin art_cfg.musicbrainz_has

C13_EveryOutcomeCached ==
    /\ (art_cfg.cache_enabled /\ last_album_id # "") =>
          /\ last_album_id \in DOMAIN album_cache
          /\ Has(trace, "lookup") => album_cache[last_album_id] = image
    /\ ~art_cfg.cache_enabled => album_cache = NoCache

\* C14: under only_when_playing a snapshot that is not playing is not
\* published; the cycle leaves activitySet false and the presence of the
\* client cleared, sets interrupted, and stays in the inner loop on the same
\* player and the same connection.
C14_PausedNeverPublished ==
    [][(Polled /\ ~media_info'.is_playing /\ settings.only_when_playing) =>
          /\ ~Has(trace', "set_activity")
          /\ ~is_activity_set'
          /\ ~shown'[client]
          /\ is_interrupted'
          /\ pc' = "inner"
          /\ ~Has(trace', "connect")
          /\ ~Has(trace', "reconnect")
          /\ UNCHANGED <<current_player_bus_name, client, conn>>]_vars

\* C14 witness: a paused poll under only_when_playing cleared the presence
\* of a track published before
C14_Witness ==
    /\ pc = "inner"
    /\ media_info # NoInfo
    /\ ~media_info.is_playing
    /\ settings.only_when_playing
    /\ last_title # ""
    /\ trace = <<Ev("clear_activity", client, "ok")>>
    /\ is_interrupted

----------------------------------------------------------------------------
(* The parts of a published payload *)

PaidSmall == pay_out # NoPay /\ pay_out.kind = "small"

PausedIcon == <<"paused", "paused">>

\* C15: when the snapshot is not playing the small image and its caption are
\* the paused icon whatever mode is configured; when it is playing they follow
\* the mode: the player's icon (YouTube's for a YouTube thumbnail), the
\* Last.fm avatar if there is one, the playing icon, or nothing
C15_PausedIconWhateverMode ==
    PaidSmall =>
        IF ~pay_in.is_playing
        THEN pay_out.part = PausedIcon
        ELSE CASE pay_in.small_image = "player" ->
                    pay_out.part \in {<<"youtube", "YouTube">>,
                                      <<"player_id", "player_name">>}
               [] pay_in.small_image = "lastfmAvatar" ->
                    pay_out.part = IF pay_in.lastfm_avatar = "" THEN NoSmall
                                   ELSE <<pay_in.lastfm_avatar, "lastfm_icon_text">>
               [] pay_in.small_image = "none" -> pay_out.part = NoSmall
               [] OTHER -> pay_out.part = <<"playing", "playing">>

\* a paused snapshot under the mode that shows no icon while playing
C15_Witness ==
    /\ PaidSmall
    /\ ~pay_in.is_playing
    /\ pay_in.small_image = "none"
    /\ pay_out.part = PausedIcon

PaidTime == pay_out # NoPay /\ pay_out.kind = "time" /\ pay_out.part # Panicked

\* C16: with a valid position and a duration above 0 the payload starts at
\* now - position and ends at start + duration iff the snapshot is playing;
\* in every other case it has no start and its end is now
C16_Timestamps ==
    (PaidTime /\ pay_in.now # BeforeEpoch) =>
        IF pay_in.is_track_position /\ pay_in.duration > 0
        THEN /\ pay_out.part.start = <<pay_in.now - pay_in.position>>
             /\ pay_out.part.end =
                    IF pay_in.is_playing
                    THEN <<pay_in.now - pay_in.position + pay_in.duration>>
                    ELSE <<>>
        ELSE /\ pay_out.part.start = <<>>
             /\ pay_out.part.end = <<pay_in.now>>

PaidButtons == pay_out # NoPay /\ pay_out.kind = "buttons"

\* C17: a payload carries at most two buttons and no two of them have the
\* same label and URL, whatever the configured list and the snapshot
C17_ButtonsDistinct ==
    PaidButtons =>
        /\ Len(pay_out.part) <= 2
        /\ \A i, j \in 1..Len(pay_out.part) :
              i # j => pay_out.part[i] # pay_out.part[j]

PaidState == pay_out # NoPay /\ pay_out.kind = "state"

Placeholder(line) ==
    to_lowercase(line) \in {"unknown artist", "by: unknown artist"}

\* C18: the state line is left out iff the source is a video player and the
\* line reads as the unknown-artist placeholder; an audio source always has it
C18_StateOmittedOnlyForVideo ==
    PaidState =>
        /\ pay_out.part = <<>> <=>
              (pay_in.is_video_player /\ Placeholder(artist_line(pay_in)))
        /\ pay_out.part # <<>> => pay_out.part = <<artist_line(pay_in)>>

----------------------------------------------------------------------------
(* The notices of the outer loop *)

\* PlayerFinder::new() succeeded in this step after failing in the last outer
\* iteration
DbusBack == dbus_notif /\ ~dbus_notif'

\* C19: the D-Bus notice is printed exactly in the step where D-Bus is first
\* found unreachable, not again while it stays so, and a notice is printed
\* when it is reachable again
C19_DbusNoticeOnEdges ==
    [][/\ Said(trace', "Could not connect to D-Bus") <=> (~dbus_notif /\ dbus_notif')
       /\ DbusBack => Has(trace', "print")]_vars

FoundSaid == Said(trace', "Found active player")

LostSaid == \E msg \in NoPlayerTexts : Said(trace', msg)

\* C20: a found notice is never followed by a found notice nor a no-player
\* notice by a no-player notice without the other in between, and the
\* no-player text is the allowlist one iff the allowlist is not empty
C20_NoticesAlternate ==
    [][/\ FoundSaid => (last_notice # "found" /\ ~LostSaid)
       /\ LostSaid => (last_notice # "lost" /\ ~FoundSaid)
       /\ Cardinality({i \in 1..Len(trace') :
              trace'[i] = Say("Found active player")
              \/ \E msg \in NoPlayerTexts : trace'[i] = Say(msg)}) <= 1
       /\ Said(trace', "Could not find any active player from your allowlist")
             => settings.allowlist # <<>>
       /\ Said(trace', "Could not find any player")
             => settings.allowlist = <<>>]_vars

\* found, then lost with an allowlist, then found again: the client that was
\* connected before is reconnected in the step that prints the notice
C20_Witness ==
    /\ Said(trace, "Found active player")
    /\ Has(trace, "reconnect")
    /\ settings.allowlist # <<>>
    /\ last_notice = "found"

----------------------------------------------------------------------------
(* The playerctld proxy *)

\* the probe told the inner loop to break only for a playing player that is
\* neither the proxy nor the tracked one
ProbeIgnoresProxy ==
    (sel_out.op = "probe" /\ sel_out.flag) =>
        \E i \in 1..Len(sel_cands) :
            /\ sel_cands[i].bus \notin {Playerctld, sel_out.res}
            /\ sel_cands[i].status = "Playing"

\* the selection with an allowlist never returns the proxy
SelectIgnoresProxy ==
    sel_out.op = "select" =>
        (sel_out.res # Playerctld /\ Playerctld \notin sel_out.elig)

\* C21: the playerctld proxy is never the player tracked by the inner loop,
\* with or without an allowlist, and the probe never breaks because of it
C21_ProxyNeverTracked ==
    /\ pc = "inner" => current_player_bus_name # Playerctld
    /\ SelectIgnoresProxy
    /\ ProbeIgnoresProxy

----------------------------------------------------------------------------
(* A refresh after an interruption *)

\* the change check ran on the snapshot read in this step
CheckRan == Polled /\ Has(trace', "metadata_changed")

\* C22: after a cycle that cleared the presence, or skipped or failed a
\* publish for an outside reason, the next usable snapshot that reaches the
\* change check is published, whatever its fields; and interrupted goes back
\* to false only in a step that publishes successfully
C22_RefreshAfterInterruption ==
    [][/\ (refresh_due = "due" /\ CheckRan) => PublishPath
       /\ (is_interrupted /\ ~is_interrupted') =>
             Ev("set_activity", client, "ok") \in Range(trace')]_vars

----------------------------------------------------------------------------
(* The Discord notices *)

CouldNotSaid ==
    \/ Said(trace', "Could not connect to Discord")
    \/ Said(trace', "Could not reconnect to Discord")

\* C23: between two "Could not connect" or "Could not reconnect" notices some
\* connect or reconnect has succeeded: the notice is not printed again while
\* Discord stays unreachable, whatever happens to the players meanwhile
C23_DiscordNoticeOnEdge ==
    [][CouldNotSaid => ~fail_pending]_vars

----------------------------------------------------------------------------
(* The stored position *)

\* C24: a step in which the change check runs stores the snapshot's position,
\* published or not, and no other step touches the stored position; so a
\* snapshot with no field changed and a position below the one polled last
\* goes on to publish
C24_PositionStoredAtEveryCheck ==
    [][/\ CheckRan => last_track_position' = media_info'.position
       /\ ~CheckRan => UNCHANGED last_track_position
       /\ (CheckRan /\ ~fields_differ(media_info')
             /\ media_info'.position < last_track_position) => PublishPath]_vars

\* a check that did not publish has stored a position above the one of the
\* presence shown
C24_Witness ==
    /\ trace = <<Ev("metadata_changed", "false", "not interrupted")>>
    /\ is_activity_set
    /\ last_track_position = MaxPos
    /\ media_info.position = MaxPos

----------------------------------------------------------------------------
(* The order of the cover lookups *)

\* the requests and cache answers of the step, in order
RECURSIVE ServiceCalls(_)
ServiceCalls(tr) ==
    IF tr = <<>> THEN <<>>
    ELSE IF Head(tr)[1] \in {"lookup", "cache_hit"}
         THEN <<Head(tr)>> \o ServiceCalls(Tail(tr))
         ELSE ServiceCalls(Tail(tr))

\* this step resolves the cover of an album the cache does not have
FreshResolution ==
    /\ pc = "inner"
    /\ Has(trace', "set_activity")
    /\ album_id_of(media_info') # last_album_id
    /\ album_id_of(media_info') \notin DOMAIN album_cache

\* the requests the fallback order asks for, given what each service knows
ExpectedCalls(cfg, album_id, album) ==
    LET stripped == album_name_without_suffix(album)
        primary == IF cfg.lastfm_api_key
                   THEN <<Ev("lookup", "lastfm", album_id)>> ELSE <<>>
        primary_found == cfg.lastfm_api_key /\ album \in cfg.lastfm_has
        retry == IF cfg.lastfm_api_key /\ ~primary_found /\ stripped # ""
                 THEN <<Ev("lookup", "lastfm", album_id)>> ELSE <<>>
        retry_found == retry # <<>> /\ stripped \in cfg.lastfm_has
        secondary == IF ~cfg.disable_musicbrainz_cover /\ ~primary_found
                        /\ ~retry_found
                     THEN <<Ev("lookup", "musicbrainz", album_id)>> ELSE <<>>
    IN primary \o retry \o secondary

\* the cover the fallback order ends with
ExpectedCover(cfg, album) ==
    LET stripped == album_name_without_suffix(album)
    IN IF cfg.lastfm_api_key /\ album \in cfg.lastfm_has
       THEN "https://lastfm/" \o album
       ELSE IF cfg.lastfm_api_key /\ stripped # "" /\ stripped \in cfg.lastfm_has
       THEN "https://lastfm/" \o stripped
       ELSE IF ~cfg.disable_musicbrainz_cover /\ album \in cfg.musicbrainz_has
       THEN "https://musicbrainz/" \o album
       ELSE MissingCover

FallbackOrderWithoutCache ==
    [][(FreshResolution /\ ~art_cfg.cache_enabled) =>
         LET s == media_info'
         IN /\ ServiceCalls(trace') = ExpectedCalls(art_cfg, album_id_of(s), s.album)
            /\ _cover_url' = ExpectedCover(art_cfg, s.album)]_vars

----------------------------------------------------------------------------
(* Staying with the tracked player *)

\* the inner loop was left for the outer loop in this step
LeftForOuter == pc = "inner" /\ pc' = "outer"

\* the loops leave the tracked player only after a read failure, a publish
\* failure, an unusable snapshot, or a snapshot that is not playing without
\* only_when_playing; never for a playing, usable snapshot that was published
\* or skipped
LeavesOnlyForCause ==
    [][LeftForOuter =>
         \/ Said(trace', "Could not get metadata from player")
         \/ Ev("set_activity", client, "err") \in Range(trace')
         \/ media_info' # NoInfo /\ Unusable(media_info')
         \/ media_info' # NoInfo /\ ~media_info'.is_playing
               /\ ~settings.only_when_playing]_vars

\* the probe has told the inner loop to break
ProbeSaidBreak == sel_out.op = "probe" /\ sel_out.flag

\* C26: the probe makes the inner loop break only when some other player,
\* not the proxy and on the allowlist when there is one, is playing with a
\* title and an artist that are not empty
C26_BreaksOnlyForPlayingCandidate ==
    ProbeSaidBreak =>
        \E i \in 1..Len(sel_cands) :
            LET c == sel_cands[i]
            IN /\ c.bus \notin {Playerctld, sel_out.res}
               /\ sel_allow # <<>> => RuleAllowlisted(c, sel_allow)
               /\ c.status = "Playing"
               /\ c.meta.title \notin {<<>>, <<"">>}
               /\ c.meta.artists \notin {<<>>, <<"">>}

----------------------------------------------------------------------------
(* A snapshot that cannot be read *)

ReadFailed == Said(trace', "Could not get metadata from player")

\* the client of the application id the player with this bus name is shown
\* under: the video one for a player named in settings.video_players
IdentityClient(bus) ==
    IF \E p \in MainPlayers : p.bus = bus /\ p.identity \in video_players
    THEN "video" ELSE "audio"

\* C27: a read failure clears the presence and goes back to the outer loop
\* with activitySet false; a publish is made only from the inner loop, and
\* the inner loop is entered only by a step in which a player was selected
\* and connect or reconnect succeeded on the client of that player's identity
C27_ReadFailureBackToSelection ==
    [][/\ ReadFailed =>
             /\ pc = "inner" /\ pc' = "outer"
             /\ ~is_activity_set' /\ ~shown'[client]
             /\ ~Has(trace', "set_activity")
             /\ is_activity_set <=> Has(trace', "clear_activity")
       /\ Has(trace', "set_activity") => (pc = "inner" /\ conn[client])
       /\ (pc = "outer" /\ pc' = "inner") =>
             /\ current_player_bus_name' # NoPlayer
             /\ player_notif' = 1
             /\ client' = IdentityClient(current_player_bus_name')
             /\ \/ Ev("connect", client', "ok") \in Range(trace')
                \/ Ev("reconnect", client', "ok") \in Range(trace')
             /\ conn'[client']
       /\ (pc = "outer" /\ ~is_activity_set) => ~is_activity_set']_vars

\* the state a read failure leaves when a presence was shown: the presence
\* cleared, activitySet false, back in the outer loop with the client open
C27_Witness ==
    /\ trace = <<Say("Could not get metadata from player"),
                 Ev("clear_activity", client, "ok")>>
    /\ pc = "outer"
    /\ ~is_activity_set
    /\ ~shown[client]
    /\ conn[client]
    /\ last_title # ""

----------------------------------------------------------------------------
(* A steady player is shown in the end *)

\* the snapshot the one player of a quiet period keeps reporting
SteadySnapshot ==
    [title |-> "Song", artist |-> "Band", album |-> "LP", album_artist |-> "Band",
     position |-> 0, is_playing |-> TRUE]

\* a step of the loops while D-Bus is reachable, the player p is the only
\* one and keeps playing SteadySnapshot, and Discord accepts every call
SteadyStep(p) ==
    /\ pc \in {"outer", "inner"}
    /\ pc' = "inner"
    /\ current_player_bus_name' = p.bus
    /\ pc = "inner" => media_info' = SteadySnapshot
    /\ \A i \in 1..Len(trace') :
          /\ trace'[i][3] # "err"
          /\ trace'[i] # Say("Could not get metadata from player")

\* Discord shows SteadySnapshot under the client of the tracked player
SteadyShown ==
    /\ pc = "inner"
    /\ is_activity_set
    /\ shown[client]
    /\ last_title = SteadySnapshot.title
    /\ ~is_interrupted

\* this step calls Discord
SinkCalled ==
    \/ Has(trace', "set_activity")
    \/ Has(trace', "clear_activity")
    \/ Has(trace', "connect")
    \/ Has(trace', "reconnect")
    \/ Has(trace', "close")

\* C28: if from some point on D-Bus is reachable, one player keeps playing
\* the same usable snapshot and Discord accepts every call, then that
\* snapshot is published in the end and from then on Discord is not called
\* (main() has not returned: it stays in the inner loop on that player)
C28_SteadyPlayerShown ==
    \A p \in {PlayerA, PlayerV} :
        (/\ <>[][SteadyStep(p)]_vars
         /\ <>[](pc = "inner" /\ current_player_bus_name = p.bus)) =>
            /\ <>[]SteadyShown
            /\ <>[][~SinkCalled]_vars

----------------------------------------------------------------------------
(* The album id *)

\* C29: the album id identifies the pair (albumArtist, album): two snapshots
\* whose pairs differ never get the same album id
C29_AlbumIdIdentifiesPair ==
    (pay_out.kind = "album" /\ pay_in.first # pay_in.second) =>
        pay_out.part[1] # pay_out.part[2]

----------------------------------------------------------------------------
(* Building the time stamps never stops main() *)

\* C30: for every position and duration, now - position and start + duration
\* are computed and converted to i64 without a panic, so the time stamps of
\* the payload are always built
C30_TimestampsAlwaysBuilt ==
    pay_out.kind = "time" => pay_out.part # Panicked

============================================================================
